---- MODULE Spec2Model ----
(***************************************************************************)
(* Model of pkg/http/server: Server.Post (the request handler) and         *)
(* Server.decodeAndStoreMetrics (the ingestion pipeline run in its own     *)
(* goroutine), with the validator, decoder, transformers and store as      *)
(* nondeterministic collaborators.                                         *)
(***************************************************************************)
EXTENDS Naturals, Sequences, FiniteSets

\* ------------------------------------------------------------------ bounds
NumReqs == 2        \* request slots of the server
MaxFamilies == 2    \* families a body yields before the decoder must end
MaxPasses == 1      \* request-specific transform passes a validator returns

Reqs == 1 .. NumReqs
Keys == {"k1", "k2"}            \* partition keys a validator may return
Names == {"a", "b"}             \* metric family names a body may carry
Methods == {"POST", "GET"}
PassKinds == {"id", "dropA", "failA"}

\* ------------------------------------------------------- program constants
StatusOK == 200
StatusMethodNotAllowed == 405
StatusTooManyRequests == 429
StatusInternalServerError == 500

\* ------------------------------------------------------------------ errors
\* An error value: its dynamic type (kind) and its value (key).
Nil == [kind |-> "nil", key |-> ""]
ErrValidate == [kind |-> "validate", key |-> ""]
ErrDecode == [kind |-> "decode", key |-> ""]
ErrTransform == [kind |-> "transform", key |-> ""]
ErrStore == [kind |-> "store", key |-> ""]
EOF == [kind |-> "EOF", key |-> ""]

\* ratelimited.ErrWriteLimitReached(key): an error value carrying the key;
\* two of them are equal exactly when their keys are.
ErrWriteLimitReached(key) == [kind |-> "writeLimit", key |-> key]

\* err.Error(): the message of an error.
Error(err) ==
    IF err.kind = "writeLimit"
    THEN <<"write limit reached for key", err.key>>
    ELSE <<err.kind>>

TimeoutMsg == <<"Timeout while storing metrics">>

\* ---------------------------------------------------------------- families
EmptyFamily == ""       \* &clientmodel.MetricFamily{}: a slot nothing was decoded into
NilFamily == "<nil>"    \* a nil entry of the slice

\* ------------------------------------------------------------------- state
VARIABLES
    transformer,    \* Server.transformer, the process-wide pass
    method,         \* req.Method
    hpc,            \* position of Post: absent, start, validate, spawn, select, done
    ctx,            \* the deadline context: none, live, deadline, parent, cancelled
    partitionKey,   \* the key Validate returned
    t,              \* the MultiTransformer built by Post
    bodyClosed,     \* req.Body.Close() has run
    w,              \* the calls Post made on the ResponseWriter, in order
    resp,           \* the response the client gets once Post has returned
    validateCalls,  \* calls of validator.Validate
    verr,           \* the err Validate returned
    transforms,     \* the transforms Validate returned
    ppc,            \* position of the goroutine: idle, decode, filter, pack, store, send, done
    families,       \* the families slice of decodeAndStoreMetrics
    decoded,        \* the families the decoder has yielded so far
    decodeCalls,    \* calls of decoder.Decode
    decodeErr,      \* the err the last Decode returned
    storeLog,       \* the PartitionedMetrics passed to store.WriteMetrics, in order
    result,         \* the value decodeAndStoreMetrics returned (sent on errCh)
    started,        \* goroutines started for the request
    produced,       \* Outcomes decodeAndStoreMetrics has returned
    steps,          \* the stages decodeAndStoreMetrics has run, in order
    filterErr,      \* the err metricfamily.Filter returned
    lateStore,      \* WriteMetrics was called after Post had returned
    received,       \* Outcomes Post has received from errCh
    pendingAtDeadline \* the deadline fired before the pipeline returned its Outcome

hvars == <<method, hpc, partitionKey, t, bodyClosed, w, resp, validateCalls, verr,
          transforms, received>>
pvars == <<ppc, families, decoded, decodeCalls, decodeErr, storeLog, result, started,
          produced, steps, filterErr, lateStore>>
vars == <<transformer, ctx, pendingAtDeadline, hvars, pvars>>

NoResp == [status |-> 0, body |-> <<>>]

RECURSIVE SeqsUpTo(_, _)
SeqsUpTo(S, n) ==
    IF n = 0 THEN {<<>>}
    ELSE LET shorter == SeqsUpTo(S, n - 1)
         IN shorter \cup {Append(s, x) : s \in shorter, x \in S}

\* What validator.Validate may return: (partitionKey, transforms, err).
ValidateResults ==
    {[key |-> k, transforms |-> ts, err |-> Nil] :
        k \in Keys, ts \in SeqsUpTo(PassKinds, MaxPasses)}
    \cup {[key |-> "", transforms |-> <<>>, err |-> ErrValidate]}

\* ------------------------------------------------------------------- Init
\* The server after New; the requests in `active` have arrived, the other
\* slots stay empty.
InitWith(active) ==
    /\ transformer \in PassKinds
    /\ method \in [Reqs -> Methods]
    /\ \A r \in Reqs \ active : method[r] = "POST"
    /\ hpc = [r \in Reqs |-> IF r \in active THEN "start" ELSE "absent"]
    /\ ctx = [r \in Reqs |-> "none"]
    /\ partitionKey = [r \in Reqs |-> ""]
    /\ t = [r \in Reqs |-> <<>>]
    /\ bodyClosed = [r \in Reqs |-> FALSE]
    /\ w = [r \in Reqs |-> <<>>]
    /\ resp = [r \in Reqs |-> NoResp]
    /\ validateCalls = [r \in Reqs |-> 0]
    /\ verr = [r \in Reqs |-> Nil]
    /\ transforms = [r \in Reqs |-> <<>>]
    /\ ppc = [r \in Reqs |-> "idle"]
    /\ families = [r \in Reqs |-> <<>>]
    /\ decoded = [r \in Reqs |-> <<>>]
    /\ decodeCalls = [r \in Reqs |-> 0]
    /\ decodeErr = [r \in Reqs |-> Nil]
    /\ storeLog = [r \in Reqs |-> <<>>]
    /\ result = [r \in Reqs |-> Nil]
    /\ started = [r \in Reqs |-> 0]
    /\ produced = [r \in Reqs |-> 0]
    /\ steps = [r \in Reqs |-> <<>>]
    /\ filterErr = [r \in Reqs |-> Nil]
    /\ lateStore = [r \in Reqs |-> FALSE]
    /\ received = [r \in Reqs |-> 0]
    /\ pendingAtDeadline = [r \in Reqs |-> FALSE]

Init == InitWith({1})

\* ---------------------------------------------------------------- handler
\* Mutant of CtxDone: the select has no ctx.Done() case.
CtxDoneNever(r) == FALSE

\* Mutant of CtxDone: the context-done branch is always ready, as a default
\* case of the select would be.
CtxDoneAlways(r) == TRUE

\* ctx.Done() is closed.
CtxDone(r) == ctx[r] \in {"deadline", "parent", "cancelled"}

\* w.WriteHeader(code)
WriteHeader(code) == [status |-> code, body |-> <<>>]

\* http.Error(w, msg, code)
HttpError(msg, code) == [status |-> code, body |-> msg]

\* What the client gets for the calls made on the ResponseWriter: the first
\* call fixes status and body; a handler that wrote nothing answers 200.
Response(writes) ==
    IF writes = <<>> THEN [status |-> StatusOK, body |-> <<>>] ELSE writes[1]

\* Mutant of MethodNotAllowed: the method check is missing.
MethodNeverChecked(m) == FALSE

\* req.Method != "POST"
MethodNotAllowed(m) == m # "POST"

\* Post, lines 38-45: the method check, then the deferred Body.Close and the
\* deadline context.
Start(r) ==
    /\ hpc[r] = "start"
    /\ IF MethodNotAllowed(method[r])
       THEN /\ w' = [w EXCEPT ![r] = Append(@, WriteHeader(StatusMethodNotAllowed))]
            /\ resp' = [resp EXCEPT ![r] = Response(w'[r])]
            /\ hpc' = [hpc EXCEPT ![r] = "done"]
            /\ UNCHANGED ctx
       ELSE /\ ctx' = [ctx EXCEPT ![r] = "live"]
            /\ hpc' = [hpc EXCEPT ![r] = "validate"]
            /\ UNCHANGED <<w, resp>>
    /\ UNCHANGED <<transformer, pendingAtDeadline, method, partitionKey, t,
                   bodyClosed, validateCalls, verr, transforms, received, pvars>>

\* Mutant of Deferred: the deferred req.Body.Close() is missing.
DeferredNoClose(r) ==
    /\ ctx' = [ctx EXCEPT ![r] = IF @ = "live" THEN "cancelled" ELSE @]
    /\ UNCHANGED bodyClosed

\* The deferred calls of Post, run when it returns after line 45: cancel()
\* and req.Body.Close().
Deferred(r) ==
    /\ ctx' = [ctx EXCEPT ![r] = IF @ = "live" THEN "cancelled" ELSE @]
    /\ bodyClosed' = [bodyClosed EXCEPT ![r] = TRUE]

\* Mutant of ValidateFailed: the validator's error is ignored.
ValidateNeverFailed(err) == FALSE

\* if err != nil after Validate
ValidateFailed(err) == err # Nil

\* Mutant of BuildChain: the process-wide transformer is added first.
BuildChainProcessWideFirst(ts, processWide) == <<processWide>> \o ts

\* Post, lines 53-55: the MultiTransformer, first With(transforms), then
\* With(s.transformer).
BuildChain(ts, processWide) == ts \o <<processWide>>

\* Post, lines 47-55: the validator, and on success the transform chain.
Validate(r) ==
    /\ hpc[r] = "validate"
    /\ \E v \in ValidateResults :
        /\ validateCalls' = [validateCalls EXCEPT ![r] = @ + 1]
        /\ verr' = [verr EXCEPT ![r] = v.err]
        /\ transforms' = [transforms EXCEPT ![r] = v.transforms]
        /\ IF ValidateFailed(v.err)
           THEN /\ w' = [w EXCEPT ![r] =
                            Append(@, HttpError(Error(v.err), StatusInternalServerError))]
                /\ resp' = [resp EXCEPT ![r] = Response(w'[r])]
                /\ hpc' = [hpc EXCEPT ![r] = "done"]
                /\ Deferred(r)
                /\ UNCHANGED <<partitionKey, t>>
           ELSE /\ partitionKey' = [partitionKey EXCEPT ![r] = v.key]
                /\ t' = [t EXCEPT ![r] = BuildChain(v.transforms, transformer)]
                /\ hpc' = [hpc EXCEPT ![r] = "spawn"]
                /\ UNCHANGED <<w, resp, ctx, bodyClosed>>
    /\ UNCHANGED <<transformer, pendingAtDeadline, method, received, pvars>>

\* Post, lines 58-66: the decoder, the channel and the go statement.
Spawn(r) ==
    /\ hpc[r] = "spawn"
    /\ hpc' = [hpc EXCEPT ![r] = "select"]
    /\ ppc' = [ppc EXCEPT ![r] = "decode"]
    /\ started' = [started EXCEPT ![r] = @ + 1]
    /\ UNCHANGED <<transformer, ctx, pendingAtDeadline, method, partitionKey, t,
                   bodyClosed, w, resp, validateCalls, verr, transforms, received,
                   families, decoded, decodeCalls, decodeErr, storeLog, result,
                   produced, steps, filterErr, lateStore>>

\* Mutant of OutcomeWrites: the rate-limited case recognised by the error's
\* type alone, whatever key it carries.
OutcomeWritesAnyKey(err, key) ==
    IF err = Nil THEN <<>>
    ELSE IF err.kind = "writeLimit"
         THEN <<HttpError(Error(err), StatusTooManyRequests)>>
         ELSE <<HttpError(Error(err), StatusInternalServerError)>>

\* Mutant of OutcomeWrites: the rate-limited case falls through into the
\* default case and writes a second time.
OutcomeWritesFallthrough(err, key) ==
    IF err = Nil THEN <<>>
    ELSE IF err = ErrWriteLimitReached(key)
         THEN <<HttpError(Error(err), StatusTooManyRequests),
                HttpError(Error(err), StatusInternalServerError)>>
         ELSE <<HttpError(Error(err), StatusInternalServerError)>>

\* Mutant of OutcomeWrites: the default case is missing, so an error that is
\* not the rate limit writes nothing.
OutcomeWritesNoDefault(err, key) ==
    IF err = ErrWriteLimitReached(key)
    THEN <<HttpError(Error(err), StatusTooManyRequests)>>
    ELSE <<>>

\* Post, lines 74-81: the switch over the received Outcome, as the calls it
\* makes on the ResponseWriter.
OutcomeWrites(err, key) ==
    IF err = Nil THEN <<>>
    ELSE IF err = ErrWriteLimitReached(key)
         THEN <<HttpError(Error(err), StatusTooManyRequests)>>
         ELSE <<HttpError(Error(err), StatusInternalServerError)>>

\* Mutant of TimeoutWrites: the timeout answered with the error of the
\* context instead of the fixed message.
TimeoutWritesCtxErr == <<HttpError(<<"context deadline exceeded">>, StatusInternalServerError)>>

\* Post, line 70: the response of the context-done branch.
TimeoutWrites == <<HttpError(TimeoutMsg, StatusInternalServerError)>>

\* Mutant of SelectDone: after the timeout response Post drains errCh, so it
\* returns only once the pipeline has delivered its Outcome.
SelectDoneDrain(r) ==
    /\ hpc[r] = "select"
    /\ CtxDone(r)
    /\ ppc[r] = "send"
    /\ w' = [w EXCEPT ![r] = @ \o <<HttpError(TimeoutMsg, StatusInternalServerError)>>]
    /\ resp' = [resp EXCEPT ![r] = Response(w'[r])]
    /\ hpc' = [hpc EXCEPT ![r] = "done"]
    /\ received' = [received EXCEPT ![r] = @ + 1]
    /\ ppc' = [ppc EXCEPT ![r] = "done"]
    /\ Deferred(r)
    /\ UNCHANGED <<transformer, pendingAtDeadline, method, partitionKey, t,
                   validateCalls, verr, transforms, families, decoded, decodeCalls,
                   decodeErr, storeLog, result, started, produced, steps,
                   filterErr, lateStore>>

\* Post, lines 69-72: the select takes the context-done branch.
SelectDone(r) ==
    /\ hpc[r] = "select"
    /\ CtxDone(r)
    /\ w' = [w EXCEPT ![r] = @ \o TimeoutWrites]
    /\ resp' = [resp EXCEPT ![r] = Response(w'[r])]
    /\ hpc' = [hpc EXCEPT ![r] = "done"]
    /\ Deferred(r)
    /\ UNCHANGED <<transformer, pendingAtDeadline, method, partitionKey, t,
                   validateCalls, verr, transforms, received, pvars>>

\* Mutant of SelectRecv: errCh is one channel shared by all requests (a field
\* of the Server), so Post receives whichever goroutine is sending.
SelectRecvSharedChannel(r) ==
    /\ hpc[r] = "select"
    /\ \E q \in Reqs :
        /\ ppc[q] = "send"
        /\ w' = [w EXCEPT ![r] = @ \o OutcomeWrites(result[q], partitionKey[r])]
        /\ ppc' = [ppc EXCEPT ![q] = "done"]
    /\ received' = [received EXCEPT ![r] = @ + 1]
    /\ resp' = [resp EXCEPT ![r] = Response(w'[r])]
    /\ hpc' = [hpc EXCEPT ![r] = "done"]
    /\ Deferred(r)
    /\ UNCHANGED <<transformer, pendingAtDeadline, method, partitionKey, t,
                   validateCalls, verr, transforms, families, decoded, decodeCalls,
                   decodeErr, storeLog, result, started, produced, steps,
                   filterErr, lateStore>>

\* Post, lines 73-82, together with the send of line 66: errCh is unbuffered,
\* so the send completes only in the step in which Post receives.
SelectRecv(r) ==
    /\ hpc[r] = "select"
    /\ ppc[r] = "send"
    /\ received' = [received EXCEPT ![r] = @ + 1]
    /\ w' = [w EXCEPT ![r] = @ \o OutcomeWrites(result[r], partitionKey[r])]
    /\ resp' = [resp EXCEPT ![r] = Response(w'[r])]
    /\ hpc' = [hpc EXCEPT ![r] = "done"]
    /\ ppc' = [ppc EXCEPT ![r] = "done"]
    /\ Deferred(r)
    /\ UNCHANGED <<transformer, pendingAtDeadline, method, partitionKey, t,
                   validateCalls, verr, transforms, families, decoded, decodeCalls,
                   decodeErr, storeLog, result, started, produced, steps,
                   filterErr, lateStore>>

\* ---------------------------------------------------------------- context
\* The timer of context.WithTimeout (line 44) expires.
DeadlineFires(r) ==
    /\ ctx[r] = "live"
    /\ ctx' = [ctx EXCEPT ![r] = "deadline"]
    /\ pendingAtDeadline' = [pendingAtDeadline EXCEPT ![r] = produced[r] = 0]
    /\ UNCHANGED <<transformer, hvars, pvars>>

\* req.Context(), the parent of the deadline context, is cancelled.
ParentCancel(r) ==
    /\ ctx[r] = "live"
    /\ ctx' = [ctx EXCEPT ![r] = "parent"]
    /\ UNCHANGED <<transformer, pendingAtDeadline, hvars, pvars>>

\* --------------------------------------------------------------- pipeline
\* One pass applied to one family: (ok, err).
Transform(pass, family) ==
    CASE pass = "id" -> [ok |-> TRUE, err |-> Nil]
      [] pass = "dropA" -> [ok |-> family # "a", err |-> Nil]
      [] pass = "failA" -> [ok |-> family # "a",
                            err |-> IF family = "a" THEN ErrTransform ELSE Nil]

\* MultiTransformer.Transform: the passes in order, stopping at the first
\* that reports an error or drops the family.
RECURSIVE MultiTransform(_, _)
MultiTransform(ts, family) ==
    IF ts = <<>> THEN [ok |-> TRUE, err |-> Nil]
    ELSE LET x == Transform(Head(ts), family)
         IN IF x.err # Nil THEN [ok |-> FALSE, err |-> x.err]
            ELSE IF ~x.ok THEN [ok |-> FALSE, err |-> Nil]
            ELSE MultiTransform(Tail(ts), family)

\* metricfamily.Filter: one traversal of the slice; a dropped family becomes
\* a nil entry, an error aborts.
RECURSIVE Filter(_, _)
Filter(fs, ts) ==
    IF fs = <<>> THEN [families |-> <<>>, err |-> Nil]
    ELSE LET x == MultiTransform(ts, Head(fs))
         IN IF x.err # Nil THEN [families |-> fs, err |-> x.err]
            ELSE LET rest == Filter(Tail(fs), ts)
                 IN [families |-> <<IF x.ok THEN Head(fs) ELSE NilFamily>>
                                      \o rest.families,
                     err |-> rest.err]

\* metricfamily.Pack: drops the nil entries and merges families of the same
\* name into the first of them; every other family is kept, in order.
RECURSIVE Pack(_)
Pack(fs) ==
    IF fs = <<>> THEN <<>>
    ELSE LET init == Pack(SubSeq(fs, 1, Len(fs) - 1))
             last == fs[Len(fs)]
         IN IF last = NilFamily \/ \E i \in 1 .. Len(init) : init[i] = last
            THEN init
            ELSE Append(init, last)

\* What one call of decoder.Decode may do: fill the slot with a family, or
\* report end-of-stream or another error.
DecodeResults(r) ==
    {[family |-> EmptyFamily, err |-> e] : e \in {EOF, ErrDecode}}
    \cup (IF Len(decoded[r]) < MaxFamilies
          THEN {[family |-> n, err |-> Nil] : n \in Names}
          ELSE {})

\* Mutant of DecodeNext: every error of the decoder ends the loop as
\* end-of-stream does.
DecodeNextBreakOnError(err) ==
    IF err = Nil THEN "continue" ELSE "break"

\* decodeAndStoreMetrics, lines 91-96: what the loop does on Decode's result.
DecodeNext(err) ==
    IF err = Nil THEN "continue"
    ELSE IF err = EOF THEN "break"
    ELSE "return"

\* decodeAndStoreMetrics, lines 88-97: one iteration of the decode loop.
Decode(r) ==
    /\ ppc[r] = "decode"
    /\ \E d \in DecodeResults(r) :
        /\ decodeCalls' = [decodeCalls EXCEPT ![r] = @ + 1]
        /\ decodeErr' = [decodeErr EXCEPT ![r] = d.err]
        /\ families' = [families EXCEPT ![r] = Append(@, d.family)]
        /\ CASE DecodeNext(d.err) = "continue" ->
                  /\ decoded' = [decoded EXCEPT ![r] = Append(@, d.family)]
                  /\ UNCHANGED <<ppc, result, produced>>
             [] DecodeNext(d.err) = "break" ->
                  /\ ppc' = [ppc EXCEPT ![r] = "filter"]
                  /\ UNCHANGED <<decoded, result, produced>>
             [] DecodeNext(d.err) = "return" ->
                  /\ ppc' = [ppc EXCEPT ![r] = "send"]
                  /\ result' = [result EXCEPT ![r] = d.err]
                  /\ produced' = [produced EXCEPT ![r] = @ + 1]
                  /\ UNCHANGED decoded
    /\ steps' = [steps EXCEPT ![r] = Append(@, "decode")]
    /\ UNCHANGED <<transformer, ctx, pendingAtDeadline, hvars, storeLog, started,
                   filterErr, lateStore>>

\* Mutant of DoFilter: the error of Filter is recorded but not returned, so
\* the pipeline goes on to Pack.
DoFilterIgnoreErr(r) ==
    /\ ppc[r] = "filter"
    /\ LET f == Filter(families[r], t[r])
       IN /\ families' = [families EXCEPT ![r] = f.families]
          /\ filterErr' = [filterErr EXCEPT ![r] = f.err]
    /\ ppc' = [ppc EXCEPT ![r] = "pack"]
    /\ steps' = [steps EXCEPT ![r] = Append(@, "filter")]
    /\ UNCHANGED <<transformer, ctx, pendingAtDeadline, hvars, decoded,
                   decodeCalls, decodeErr, storeLog, started, lateStore,
                   result, produced>>

\* decodeAndStoreMetrics, lines 99-101.
DoFilter(r) ==
    /\ ppc[r] = "filter"
    /\ LET f == Filter(families[r], t[r])
       IN /\ families' = [families EXCEPT ![r] = f.families]
          /\ filterErr' = [filterErr EXCEPT ![r] = f.err]
          /\ IF f.err # Nil
             THEN /\ ppc' = [ppc EXCEPT ![r] = "send"]
                  /\ result' = [result EXCEPT ![r] = f.err]
                  /\ produced' = [produced EXCEPT ![r] = @ + 1]
             ELSE /\ ppc' = [ppc EXCEPT ![r] = "pack"]
                  /\ UNCHANGED <<result, produced>>
    /\ UNCHANGED <<transformer, ctx, pendingAtDeadline, hvars, decoded,
                   decodeCalls, decodeErr, storeLog, started, lateStore>>
    /\ steps' = [steps EXCEPT ![r] = Append(@, "filter")]

\* decodeAndStoreMetrics, line 102.
DoPack(r) ==
    /\ ppc[r] = "pack"
    /\ families' = [families EXCEPT ![r] = Pack(@)]
    /\ ppc' = [ppc EXCEPT ![r] = "store"]
    /\ UNCHANGED <<transformer, ctx, pendingAtDeadline, hvars, decoded,
                   decodeCalls, decodeErr, storeLog, result, started, produced,
                   filterErr, lateStore>>
    /\ steps' = [steps EXCEPT ![r] = Append(@, "pack")]

\* What store.WriteMetrics may return.
StoreResults == {Nil, ErrStore} \cup {ErrWriteLimitReached(k) : k \in Keys}

\* Mutant of Store: the PartitionKey field of the PartitionedMetrics is left
\* unset.
StoreWithoutKey(r) ==
    /\ ppc[r] = "store"
    /\ storeLog' = [storeLog EXCEPT ![r] =
                       Append(@, [PartitionKey |-> "", Families |-> families[r]])]
    /\ \E e \in StoreResults : result' = [result EXCEPT ![r] = e]
    /\ produced' = [produced EXCEPT ![r] = @ + 1]
    /\ ppc' = [ppc EXCEPT ![r] = "send"]
    /\ steps' = [steps EXCEPT ![r] = Append(@, "store")]
    /\ lateStore' = [lateStore EXCEPT ![r] = hpc[r] = "done"]
    /\ UNCHANGED <<transformer, ctx, pendingAtDeadline, hvars, families,
                   decoded, decodeCalls, decodeErr, started, filterErr>>

\* decodeAndStoreMetrics, lines 104-107.
Store(r) ==
    /\ ppc[r] = "store"
    /\ storeLog' = [storeLog EXCEPT ![r] =
                       Append(@, [PartitionKey |-> partitionKey[r],
                                  Families |-> families[r]])]
    /\ \E e \in StoreResults : result' = [result EXCEPT ![r] = e]
    /\ produced' = [produced EXCEPT ![r] = @ + 1]
    /\ ppc' = [ppc EXCEPT ![r] = "send"]
    /\ UNCHANGED <<transformer, ctx, pendingAtDeadline, hvars, families,
                   decoded, decodeCalls, decodeErr, started, filterErr>>
    /\ steps' = [steps EXCEPT ![r] = Append(@, "store")]
    /\ lateStore' = [lateStore EXCEPT ![r] = hpc[r] = "done"]

\* ------------------------------------------------------------------- Next
Next ==
    \E r \in Reqs :
        \/ Start(r)
        \/ Validate(r)
        \/ Spawn(r)
        \/ SelectDone(r)
        \/ SelectRecv(r)
        \/ DeadlineFires(r)
        \/ ParentCancel(r)
        \/ Decode(r)
        \/ DoFilter(r)
        \/ DoPack(r)
        \/ Store(r)

Spec == Init /\ [][Next]_vars

\* The goroutines are scheduled fairly, the timer of the deadline fires, and
\* every collaborator returns.
Fairness ==
    \A r \in Reqs :
        /\ WF_vars(Start(r))
        /\ WF_vars(Validate(r))
        /\ WF_vars(Spawn(r))
        /\ WF_vars(SelectDone(r))
        /\ WF_vars(SelectRecv(r))
        /\ WF_vars(DeadlineFires(r))
        /\ WF_vars(Decode(r))
        /\ WF_vars(DoFilter(r))
        /\ WF_vars(DoPack(r))
        /\ WF_vars(Store(r))

FairSpec == Spec /\ Fairness

\* Only the Handler's goroutine is scheduled fairly and the timer of the
\* deadline fires; the decoder and the store may never return.
HandlerFairness ==
    \A r \in Reqs :
        /\ WF_vars(Spawn(r))
        /\ WF_vars(SelectDone(r) \/ SelectRecv(r))
        /\ WF_vars(DeadlineFires(r))

HandlerFairSpec == Spec /\ HandlerFairness

\* Two requests handled concurrently. To keep the product of the two
\* requests small their inputs are narrowed: POST requests, no
\* request-specific passes, an identity process-wide pass, and bodies of at
\* most one family.
ConcInit == InitWith({1, 2}) /\ transformer = "id" /\ \A r \in Reqs : method[r] = "POST"

ConcInputs ==
    \A r \in Reqs : transforms[r] = <<>> /\ Len(decoded[r]) <= 1

ConcNext == Next /\ ConcInputs'

ConcSpec == ConcInit /\ [][ConcNext]_vars

\* ================================================================= claims
TimeoutResp == [status |-> 500, body |-> TimeoutMsg]

\* C1: when Post has received the pipeline's Outcome and it is not nil, the
\* response carries the error's message, with status 429 exactly when the
\* Outcome equals the write-limit-reached error of the request's own
\* partition key, and status 500 for every other error.
C1_RateLimitedIffOwnKey ==
    \A r \in Reqs :
        (hpc[r] = "done" /\ received[r] > 0 /\ result[r] # Nil) =>
            /\ resp[r].body = Error(result[r])
            /\ resp[r].status \in {429, 500}
            /\ resp[r].status = 429 <=>
                   result[r] = [kind |-> "writeLimit", key |-> partitionKey[r]]

\* C1 witness: a write-limit error for another key was received and
\* answered with 500.
C1_Witness ==
    \E r \in Reqs :
        /\ hpc[r] = "done" /\ received[r] = 1
        /\ result[r].kind = "writeLimit" /\ result[r].key # partitionKey[r]
        /\ resp[r].status = 500

\* C2 (as stated): a request whose deadline fired before the pipeline had
\* returned its Outcome is answered with the timeout response and nothing else.
C2_TimeoutWhenDeadlineFirst ==
    \A r \in Reqs :
        (hpc[r] = "done" /\ started[r] > 0 /\ pendingAtDeadline[r]) =>
            resp[r] = TimeoutResp

\* C2 (amended): when Post leaves its select while the pipeline has not
\* returned an Outcome, the response is the 500 timeout response, wherever
\* the pipeline is.
C2_TimeoutWhenNoOutcomeAtSelect ==
    [][\A r \in Reqs :
          (hpc[r] = "select" /\ hpc'[r] = "done" /\ produced[r] = 0) =>
              resp'[r] = TimeoutResp]_vars

\* C2 witness: the deadline fired, Post answered the timeout, and the
\* pipeline is still decoding or storing.
C2_Witness ==
    \E r \in Reqs :
        /\ hpc[r] = "done" /\ ctx[r] = "deadline" /\ resp[r] = TimeoutResp
        /\ ppc[r] \in {"decode", "filter", "pack", "store"}

\* C3 (as stated): a started goroutine eventually completes its send on the
\* outcome channel and terminates.
C3_SendCompletes ==
    \A r \in Reqs : (ppc[r] # "idle") ~> (ppc[r] = "done")

\* C4: when the validator returned an error, Post has returned with the 500
\* response carrying that error's message, no goroutine was started, and
\* neither the decoder nor the store was called.
C4_ValidatorErrorStopsRequest ==
    \A r \in Reqs :
        verr[r] # Nil =>
            /\ hpc[r] = "done"
            /\ resp[r] = [status |-> 500, body |-> Error(verr[r])]
            /\ started[r] = 0 /\ ppc[r] = "idle"
            /\ decodeCalls[r] = 0
            /\ Len(storeLog[r]) = 0

\* C4 witness: a validator error was answered.
C4_Witness ==
    \E r \in Reqs : verr[r] # Nil /\ validateCalls[r] = 1 /\ hpc[r] = "done"

\* C5: once the decoder has reported an error other than end-of-stream, the
\* pipeline's Outcome is that error and the store is never called, however
\* many families were decoded before.
C5_DecodeErrorDiscardsBatch ==
    \A r \in Reqs :
        decodeErr[r] \notin {Nil, EOF} =>
            /\ ppc[r] \in {"send", "done"}
            /\ produced[r] = 1
            /\ result[r] = decodeErr[r]
            /\ Len(storeLog[r]) = 0

\* C5 witness: the decoder failed after MaxFamilies families.
C5_Witness ==
    \E r \in Reqs :
        /\ decodeErr[r] = ErrDecode
        /\ Len(decoded[r]) = MaxFamilies
        /\ ppc[r] = "done"

\* The chain of request r is the identity: every pass keeps every family.
IdentityChain(r) == \A i \in 1 .. Len(t[r]) : t[r][i] = "id"

\* The families the decoder yielded for request r have pairwise distinct names.
DistinctNames(r) ==
    \A i, j \in 1 .. Len(decoded[r]) : decoded[r][i] = decoded[r][j] => i = j

\* C6 (as stated): with an identity chain and N families of pairwise
\* distinct names decoded before end-of-stream, the batch passed to
\* WriteMetrics holds exactly N families.
C6_BatchHasNFamilies ==
    \A r \in Reqs :
        (Len(storeLog[r]) > 0 /\ IdentityChain(r) /\ DistinctNames(r)) =>
            Len(storeLog[r][1].Families) = Len(decoded[r])

\* C7: at most one call is ever made on the ResponseWriter, a returned Post
\* has answered with exactly one response, and nothing that happens after
\* Post has returned changes what was written.
C7_OneResponse ==
    /\ [](\A r \in Reqs :
            /\ Len(w[r]) <= 1
            /\ hpc[r] # "done" => resp[r] = NoResp
            /\ hpc[r] = "done" =>
                 /\ resp[r].status \in {200, 405, 429, 500}
                 /\ w[r] # <<>> => resp[r] = w[r][1])
    /\ [][\A r \in Reqs :
            hpc[r] = "done" => (w'[r] = w[r] /\ resp'[r] = resp[r])]_vars

\* C7 witness: Post answered the timeout and the pipeline's late Outcome is
\* waiting on the channel; the response stays the single timeout response.
C7_Witness ==
    \E r \in Reqs :
        /\ hpc[r] = "done" /\ ppc[r] = "send"
        /\ w[r] = <<TimeoutResp>> /\ resp[r] = TimeoutResp

\* C8: a request whose method is not POST is answered 405 with no body, and
\* nothing else happens for it: no validator call, no deadline context, no
\* body read or close, no goroutine, no store call.
C8_WrongMethodOnly405 ==
    \A r \in Reqs :
        (method[r] # "POST" /\ hpc[r] # "start") =>
            /\ hpc[r] = "done"
            /\ resp[r] = [status |-> 405, body |-> <<>>]
            /\ validateCalls[r] = 0
            /\ ctx[r] = "none"
            /\ decodeCalls[r] = 0 /\ ~bodyClosed[r]
            /\ started[r] = 0 /\ ppc[r] = "idle"
            /\ Len(storeLog[r]) = 0

\* C8 witness: a GET was answered.
C8_Witness ==
    \E r \in Reqs : method[r] = "GET" /\ hpc[r] = "done" /\ Len(w[r]) = 1

\* C9: a returned Post answers 200 with an empty body only if WriteMetrics
\* was called exactly once for the request and its nil result was received;
\* and a received nil Outcome is always answered 200 with an empty body.
C9_SuccessOnlyAfterStore ==
    \A r \in Reqs :
        hpc[r] = "done" =>
            /\ resp[r] = [status |-> 200, body |-> <<>>] =>
                 /\ Len(storeLog[r]) = 1
                 /\ produced[r] = 1 /\ received[r] = 1
                 /\ result[r] = Nil
            /\ (received[r] = 1 /\ result[r] = Nil) =>
                 resp[r] = [status |-> 200, body |-> <<>>]

\* C9 witness: a stored batch was answered 200.
C9_Witness ==
    \E r \in Reqs :
        /\ hpc[r] = "done" /\ resp[r].status = 200
        /\ Len(storeLog[r]) = 1 /\ Len(decoded[r]) > 0

\* C10 (as stated): the Outcome of a started pipeline is consumed exactly
\* once by the Handler.
C10_ConsumedExactlyOnce ==
    \A r \in Reqs :
        (hpc[r] = "done" /\ started[r] > 0) => received[r] = 1

\* C10 (amended): a started pipeline is invoked once, returns at most one
\* Outcome, and the Handler consumes it at most once: exactly once when it
\* answers from the outcome branch, never when it answers the timeout.
C10_ConsumedAtMostOnce ==
    \A r \in Reqs :
        /\ started[r] <= 1 /\ produced[r] <= started[r]
        /\ received[r] <= produced[r]
        /\ ppc[r] # "idle" <=> started[r] = 1
        /\ ppc[r] = "done" <=> received[r] = 1
        /\ (hpc[r] = "done" /\ started[r] = 1) =>
               (received[r] = 0 <=> resp[r] = TimeoutResp)

\* C10 witness: Post answered the timeout and the pipeline's Outcome was
\* produced and never consumed.
C10_Witness ==
    \E r \in Reqs :
        /\ hpc[r] = "done" /\ resp[r] = TimeoutResp
        /\ produced[r] = 1 /\ received[r] = 0

\* The position of a stage in decode -> transform -> pack -> store.
StageRank(stage) ==
    CASE stage = "decode" -> 1
      [] stage = "filter" -> 2
      [] stage = "pack" -> 3
      [] stage = "store" -> 4

\* The stage was run for request r.
Ran(r, stage) == \E i \in 1 .. Len(steps[r]) : steps[r][i] = stage

\* C11: the stages of one request run in the order decode, Filter, Pack,
\* WriteMetrics; Filter, Pack and WriteMetrics run at most once; Filter runs
\* only after the decoder reported end-of-stream, Pack only after Filter
\* returned no error, WriteMetrics only after Pack.
C11_StagesInOrder ==
    \A r \in Reqs :
        /\ \A i, j \in 1 .. Len(steps[r]) :
              /\ i < j => StageRank(steps[r][i]) <= StageRank(steps[r][j])
              /\ (steps[r][i] = steps[r][j] /\ steps[r][i] # "decode") => i = j
        /\ Ran(r, "filter") => decodeErr[r] = EOF
        /\ Ran(r, "pack") => (Ran(r, "filter") /\ filterErr[r] = Nil)
        /\ Ran(r, "store") => Ran(r, "pack")
        /\ Len(storeLog[r]) = (IF Ran(r, "store") THEN 1 ELSE 0)

\* C11 witness: two families were decoded, filtered, packed and stored.
C11_Witness ==
    \E r \in Reqs :
        steps[r] = <<"decode", "decode", "decode", "filter", "pack", "store">>

\* C12: when Filter has reported an error, that error is the pipeline's
\* Outcome, Pack and WriteMetrics are never run, and a Handler that received
\* the Outcome answered 500 with the error's message.
C12_TransformErrorAborts ==
    \A r \in Reqs :
        filterErr[r] # Nil =>
            /\ ppc[r] \in {"send", "done"}
            /\ produced[r] = 1 /\ result[r] = filterErr[r]
            /\ ~Ran(r, "pack") /\ ~Ran(r, "store")
            /\ Len(storeLog[r]) = 0
            /\ (hpc[r] = "done" /\ received[r] = 1) =>
                   resp[r] = [status |-> 500, body |-> Error(filterErr[r])]

\* C12 witness: a request-specific pass failed and the Handler answered it.
C12_Witness ==
    \E r \in Reqs :
        /\ filterErr[r] = ErrTransform /\ t[r][1] = "failA" /\ Len(t[r]) > 1
        /\ hpc[r] = "done" /\ received[r] = 1

\* C13: once the validator has returned successfully, Post eventually writes
\* a response and returns, even when neither the decoder nor the store ever
\* returns.
C13_PostReturns ==
    \A r \in Reqs :
        (hpc[r] = "spawn") ~> (hpc[r] = "done" /\ resp[r] # NoResp)

\* C13 witness: Post has answered while the first Decode call has not
\* returned.
C13_Witness ==
    \E r \in Reqs :
        /\ hpc[r] = "done" /\ resp[r] = TimeoutResp
        /\ ppc[r] = "decode" /\ steps[r] = <<>>

\* C14: a Handler that answered the timeout has neither waited for the
\* pipeline nor stopped it: the Outcome is unreceived, the goroutine has not
\* terminated, and whatever stage it is at can still run.
C14_TimeoutLeavesPipelineRunning ==
    \A r \in Reqs :
        (hpc[r] = "done" /\ resp[r] = TimeoutResp) =>
            /\ received[r] = 0
            /\ ppc[r] \in {"decode", "filter", "pack", "store", "send"}
            /\ ppc[r] = "decode" => ENABLED Decode(r)
            /\ ppc[r] = "filter" => ENABLED DoFilter(r)
            /\ ppc[r] = "pack" => ENABLED DoPack(r)
            /\ ppc[r] = "store" => ENABLED Store(r)

\* C14 witness: Post answered the timeout, and WriteMetrics was called
\* afterwards and returned nil.
C14_Witness ==
    \E r \in Reqs :
        /\ hpc[r] = "done" /\ resp[r] = TimeoutResp
        /\ lateStore[r] /\ Len(storeLog[r]) = 1
        /\ ppc[r] = "send" /\ result[r] = Nil

\* C15 (as stated): the request body is closed by the Handler on every exit
\* path of Post.
C15_BodyClosedOnEveryExit ==
    \A r \in Reqs : hpc[r] = "done" => bodyClosed[r]

\* C15 (amended): the Handler closes the request body on every exit path
\* that follows the method check, and only when it returns; a request
\* rejected for its method is returned without closing the body.
C15_BodyClosedAfterMethodCheck ==
    \A r \in Reqs :
        /\ bodyClosed[r] => hpc[r] = "done"
        /\ hpc[r] = "done" => (bodyClosed[r] <=> method[r] = "POST")

\* C15 witness: a rate-limited request was answered and its body closed.
C15_Witness ==
    \E r \in Reqs :
        hpc[r] = "done" /\ resp[r].status = 429 /\ bodyClosed[r]

\* C16: the key passed to WriteMetrics and the key the Handler uses to
\* recognise the rate-limited Outcome are the partition key the validator
\* returned, which never changes once the validator has returned.
C16_PartitionKeyThreaded ==
    /\ [](\A r \in Reqs :
            /\ \A i \in 1 .. Len(storeLog[r]) :
                  storeLog[r][i].PartitionKey = partitionKey[r]
            /\ Len(storeLog[r]) > 0 => partitionKey[r] \in Keys
            /\ (hpc[r] = "done" /\ received[r] = 1) =>
                  (resp[r].status = 429 <=>
                      result[r] = [kind |-> "writeLimit", key |-> partitionKey[r]]))
    /\ [][\A r \in Reqs :
            hpc[r] \notin {"start", "validate"} =>
                partitionKey'[r] = partitionKey[r]]_vars

\* C16 witness: the store was called with key k2, reported the write limit
\* for k2, and the Handler answered 429.
C16_Witness ==
    \E r \in Reqs :
        /\ partitionKey[r] = "k2" /\ Len(storeLog[r]) = 1
        /\ storeLog[r][1].PartitionKey = "k2"
        /\ result[r] = [kind |-> "writeLimit", key |-> "k2"]
        /\ hpc[r] = "done" /\ resp[r].status = 429

\* The request-specific passes of r that do something to a family named
\* "a", as indices into transforms[r].
ActingPasses(r) == {i \in 1 .. Len(transforms[r]) : transforms[r][i] # "id"}

\* The first of them.
FirstActing(r) ==
    transforms[r][CHOOSE i \in ActingPasses(r) : \A j \in ActingPasses(r) : i <= j]

\* C17: the chain handed to the pipeline is the validator's passes in their
\* returned order followed by the process-wide transformer; Filter lets the
\* request-specific passes act before the process-wide one (a family the
\* first acting request-specific pass drops or rejects never reaches the
\* process-wide pass); and the chain does not change once the pipeline has
\* been started.
C17_RequestPassesFirst ==
    /\ [](\A r \in Reqs :
            /\ started[r] > 0 =>
                 /\ Len(t[r]) = Len(transforms[r]) + 1
                 /\ \A i \in 1 .. Len(transforms[r]) : t[r][i] = transforms[r][i]
                 /\ t[r][Len(t[r])] = transformer
            /\ (Ran(r, "filter") /\ \E i \in 1 .. Len(decoded[r]) : decoded[r][i] = "a") =>
                 filterErr[r] =
                    (IF ActingPasses(r) # {}
                     THEN IF FirstActing(r) = "failA" THEN ErrTransform ELSE Nil
                     ELSE IF transformer = "failA" THEN ErrTransform ELSE Nil))
    /\ [][\A r \in Reqs : started[r] > 0 => t'[r] = t[r]]_vars

\* C17 witness: the request-specific pass dropped family "a" before the
\* failing process-wide pass could see it, and the batch was stored.
C17_Witness ==
    \E r \in Reqs :
        /\ transforms[r] = <<"dropA">> /\ transformer = "failA"
        /\ decoded[r] = <<"a", "b">>
        /\ Ran(r, "store") /\ filterErr[r] = Nil

\* Everything the model holds for request r.
ReqState(r) ==
    <<method[r], hpc[r], ctx[r], partitionKey[r], t[r], bodyClosed[r], w[r],
      resp[r], validateCalls[r], verr[r], transforms[r], received[r], ppc[r],
      families[r], decoded[r], decodeCalls[r], decodeErr[r], storeLog[r],
      result[r], started[r], produced[r], steps[r], filterErr[r], lateStore[r],
      pendingAtDeadline[r]>>

\* C18: with two requests in flight, a Handler receives only the Outcome of
\* its own pipeline, its response is decided by that Outcome and its own
\* partition key or else by its own context, its batch carries its own key,
\* and no step of one request changes anything of the other.
C18_RequestsIsolated ==
    /\ [](\A r \in Reqs :
            /\ received[r] = 1 <=> ppc[r] = "done"
            /\ received[r] <= produced[r]
            /\ (hpc[r] = "done" /\ received[r] = 1) =>
                 resp[r] =
                    (IF result[r] = Nil THEN [status |-> 200, body |-> <<>>]
                     ELSE [status |-> IF result[r] = [kind |-> "writeLimit",
                                                      key |-> partitionKey[r]]
                                      THEN 429 ELSE 500,
                           body |-> Error(result[r])])
            /\ (hpc[r] = "done" /\ started[r] = 1 /\ received[r] = 0) =>
                 (resp[r] = TimeoutResp /\ ctx[r] \in {"deadline", "parent"})
            /\ \A i \in 1 .. Len(storeLog[r]) :
                 storeLog[r][i].PartitionKey = partitionKey[r])
    /\ [][\A r, q \in Reqs :
            (r # q /\ ReqState(r)' # ReqState(r)) => ReqState(q)' = ReqState(q)]_vars

\* C18 witness: request 1 was answered 429 for its own key k1 while request
\* 2, with key k2, still has a nil Outcome waiting on its own channel.
C18_Witness ==
    /\ hpc[1] = "done" /\ partitionKey[1] = "k1" /\ resp[1].status = 429
    /\ hpc[2] = "select" /\ partitionKey[2] = "k2"
    /\ ppc[2] = "send" /\ result[2] = Nil /\ received[2] = 0

\* C19 (as stated): no call of decoder.Decode happens after the Handler has
\* closed the request body.
C19_NoDecodeAfterClose ==
    [][\A r \in Reqs : bodyClosed[r] => decodeCalls'[r] = decodeCalls[r]]_vars

\* C20 (as stated): the timeout response is produced only when the deadline
\* has expired.
C20_TimeoutOnlyAfterDeadline ==
    \A r \in Reqs : resp[r] = TimeoutResp => ctx[r] = "deadline"

\* C20 (amended): the timeout response is produced only when the context was
\* done before Post returned: its deadline has expired or the parent
\* request context was cancelled.
C20_TimeoutOnlyWhenContextDone ==
    \A r \in Reqs : resp[r] = TimeoutResp => ctx[r] \in {"deadline", "parent"}

\* C20 witness: the parent context was cancelled, the deadline never fired,
\* and Post answered the timeout.
C20_Witness ==
    \E r \in Reqs :
        hpc[r] = "done" /\ resp[r] = TimeoutResp /\ ctx[r] = "parent"

====
